---- MODULE Spec2Model ----
(***************************************************************************)
(* Edison chat service (src/main.py): the in-memory session store          *)
(* chat_sessions, the three HTTP handlers chat, clear_chat and get_history *)
(* and the two response generators (the ChatKit workflow and the           *)
(* rule-based generate_response_sync).                                     *)
(*                                                                         *)
(* Texts are sequences of one-character strings, so that str.lower(), the  *)
(* substring test `in` and f-string interpolation are computed as Python   *)
(* computes them.  The handlers are coroutines on one event loop: a step   *)
(* of the model is the code a handler runs between two awaits.             *)
(***************************************************************************)
EXTENDS Integers, Sequences, FiniteSets, TLC

(***************************************************************************)
(* Bounds of the model.                                                    *)
(***************************************************************************)
\* number of chat requests that are served
MaxRequests == 2
\* longest history argument passed to generate_response_sync in SyncSpec
MaxHistory == 2

(***************************************************************************)
(* Text literals of src/main.py.                                           *)
(***************************************************************************)
\* main.py:233 greeting keyword: 'hello'
HELLO ==
  <<"h","e","l","l","o">>

\* main.py:233 greeting keyword: 'hi'
HI ==
  <<"h","i">>

\* main.py:233 greeting keyword: 'hey'
HEY ==
  <<"h","e","y">>

\* main.py:233 greeting keyword: 'moshi'
MOSHI ==
  <<"m","o","s","h","i">>

\* main.py:236 special name: 'stella'
STELLA ==
  <<"s","t","e","l","l","a">>

\* main.py:239 identity keyword: 'who are you'
WHO_ARE_YOU ==
  <<"w","h","o"," ","a","r","e"," ","y","o","u">>

\* main.py:239 identity keyword: 'what are you'
WHAT_ARE_YOU ==
  <<"w","h","a","t"," ","a","r","e"," ","y","o","u">>

\* main.py:239 identity keyword: 'introduce'
INTRODUCE ==
  <<"i","n","t","r","o","d","u","c","e">>

\* main.py:242 capability keyword: 'help'
HELP ==
  <<"h","e","l","p">>

\* main.py:242 capability keyword: 'what can you do'
WHAT_CAN_YOU_DO ==
  <<"w","h","a","t"," ","c","a","n"," ","y","o","u"," ","d","o">>

\* main.py:242 capability keyword: 'capabilities'
CAPABILITIES ==
  <<"c","a","p","a","b","i","l","i","t","i","e","s">>

\* main.py:245: '?'
QUESTION_MARK ==
  <<"?">>

\* main.py:234: "Hello! I'm Edison, here to help you. What would you like to know?"
GREETING_REPLY ==
  <<"H","e","l","l","o","!"," ","I","'","m"," ","E","d","i","s","o","n",","," ","h","e","r","e"," ","t","o"," ","h","e","l","p"," ","y","o","u","."," ","W","h","a","t"," ","w","o","u","l","d"," ","y","o","u"," ","l","i","k","e"," ","t","o"," ","k","n","o","w","?">>

\* main.py:237: "Stella is currently unavailable, but I'm here to assist you with whatever you need!"
STELLA_REPLY ==
  <<"S","t","e","l","l","a"," ","i","s"," ","c","u","r","r","e","n","t","l","y"," ","u","n","a","v","a","i","l","a","b","l","e",","," ","b","u","t"," ","I","'","m"," ","h","e","r","e"," ","t","o"," ","a","s","s","i","s","t"," ","y","o","u"," ","w","i","t","h"," ","w","h","a","t","e","v","e","r"," ","y","o","u"," ","n","e","e","d","!">>

\* main.py:240: "I am Edison, an AI assistant. Stella is unavailable right so I will be handling all your queries. I'm here to help answer questions, provide information, and assist you with various tasks!"
IDENTITY_REPLY ==
  <<"I"," ","a","m"," ","E","d","i","s","o","n",","," ","a","n"," ","A","I"," ","a","s","s","i","s","t","a","n","t","."," ","S","t","e","l","l","a"," ","i","s"," ","u","n","a","v","a","i","l","a","b","l","e"," ","r","i","g","h","t"," ","n","o","w",","," ","s","o"," ","I"," ","w","i","l","l"," ","b","e"," ","h","a","n","d","l","i","n","g"," ","a","l","l"," ","y","o","u","r"," ","q","u","e","r","i","e","s","."," ","I","'","m"," ","h","e","r","e"," ","t","o"," ","h","e","l","p"," ","a","n","s","w","e","r"," ","q","u","e","s","t","i","o","n","s",","," ","p","r","o","v","i","d","e"," ","i","n","f","o","r","m","a","t","i","o","n",","," ","a","n","d"," ","a","s","s","i","s","t"," ","y","o","u"," ","w","i","t","h"," ","v","a","r","i","o","u","s"," ","t","a","s","k","s","!">>

\* main.py:243: "I can help you with various tasks such as:\n- Answering questions\n- Providing information\n- Having conversations\n- And much more!\n\nNote: I'm now powered by OpenAI's ChatKit agents for intelligent responses."
CAPABILITY_REPLY ==
  <<"I"," ","c","a","n"," ","h","e","l","p"," ","y","o","u"," ","w","i","t","h"," ","v","a","r","i","o","u","s"," ","t","a","s","k","s"," ","s","u","c","h"," ","a","s",":","\n","-"," ","A","n","s","w","e","r","i","n","g"," ","q","u","e","s","t","i","o","n","s","\n","-"," ","P","r","o","v","i","d","i","n","g"," ","i","n","f","o","r","m","a","t","i","o","n","\n","-"," ","H","a","v","i","n","g"," ","c","o","n","v","e","r","s","a","t","i","o","n","s","\n","-"," ","A","n","d"," ","m","u","c","h"," ","m","o","r","e","!","\n","\n","N","o","t","e",":"," ","I","'","m"," ","n","o","w"," ","p","o","w","e","r","e","d"," ","b","y"," ","O","p","e","n","A","I","'","s"," ","C","h","a","t","K","i","t"," ","a","g","e","n","t","s"," ","f","o","r"," ","i","n","t","e","l","l","i","g","e","n","t"," ","r","e","s","p","o","n","s","e","s",".">>

\* main.py:246 text before {user_message}: "That's an interesting question! Let me think about that: '"
QUESTION_PREFIX ==
  <<"T","h","a","t","'","s"," ","a","n"," ","i","n","t","e","r","e","s","t","i","n","g"," ","q","u","e","s","t","i","o","n","!"," ","L","e","t"," ","m","e"," ","t","h","i","n","k"," ","a","b","o","u","t"," ","t","h","a","t",":"," ","'">>

\* main.py:246 text after {user_message}: "'. I'm processing this with my AI capabilities."
QUESTION_SUFFIX ==
  <<"'","."," ","I","'","m"," ","p","r","o","c","e","s","s","i","n","g"," ","t","h","i","s"," ","w","i","t","h"," ","m","y"," ","A","I"," ","c","a","p","a","b","i","l","i","t","i","e","s",".">>

\* main.py:249 text before {user_message}: "I understand you said: '"
ECHO_PREFIX ==
  <<"I"," ","u","n","d","e","r","s","t","a","n","d"," ","y","o","u"," ","s","a","i","d",":"," ","'">>

\* main.py:249 text after {user_message}: "'. I'm Edison, your AI assistant powered by OpenAI ChatKit, ready to help with any questions or tasks you have."
ECHO_SUFFIX ==
  <<"'","."," ","I","'","m"," ","E","d","i","s","o","n",","," ","y","o","u","r"," ","A","I"," ","a","s","s","i","s","t","a","n","t"," ","p","o","w","e","r","e","d"," ","b","y"," ","O","p","e","n","A","I"," ","C","h","a","t","K","i","t",","," ","r","e","a","d","y"," ","t","o"," ","h","e","l","p"," ","w","i","t","h"," ","a","n","y"," ","q","u","e","s","t","i","o","n","s"," ","o","r"," ","t","a","s","k","s"," ","y","o","u"," ","h","a","v","e",".">>

\* main.py:154: 'No relevant knowledge found'
NO_RELEVANT_KNOWLEDGE ==
  <<"N","o"," ","r","e","l","e","v","a","n","t"," ","k","n","o","w","l","e","d","g","e"," ","f","o","u","n","d">>

\* main.py:202: "Sorry, I can't help."
CANNOT_HELP ==
  <<"S","o","r","r","y",","," ","I"," ","c","a","n","'","t"," ","h","e","l","p",".">>

\* main.py:197 text before {str(e)}: "I'm Edison, your AI assistant. I encountered an issue with the ChatKit workflow: "
AGENT_ISSUE_PREFIX ==
  <<"I","'","m"," ","E","d","i","s","o","n",","," ","y","o","u","r"," ","A","I"," ","a","s","s","i","s","t","a","n","t","."," ","I"," ","e","n","c","o","u","n","t","e","r","e","d"," ","a","n"," ","i","s","s","u","e"," ","w","i","t","h"," ","t","h","e"," ","C","h","a","t","K","i","t"," ","w","o","r","k","f","l","o","w",":"," ">>

\* main.py:197 text after {str(e)}: '. How can I help you today?'
AGENT_ISSUE_SUFFIX ==
  <<"."," ","H","o","w"," ","c","a","n"," ","I"," ","h","e","l","p"," ","y","o","u"," ","t","o","d","a","y","?">>

\* main.py:222 text before {str(e)}: "I'm Edison, your AI assistant. I encountered an issue processing your request: "
REQUEST_ISSUE_PREFIX ==
  <<"I","'","m"," ","E","d","i","s","o","n",","," ","y","o","u","r"," ","A","I"," ","a","s","s","i","s","t","a","n","t","."," ","I"," ","e","n","c","o","u","n","t","e","r","e","d"," ","a","n"," ","i","s","s","u","e"," ","p","r","o","c","e","s","s","i","n","g"," ","y","o","u","r"," ","r","e","q","u","e","s","t",":"," ">>

\* main.py:222 text after {str(e)}: '. Please try again.'
REQUEST_ISSUE_SUFFIX ==
  <<"."," ","P","l","e","a","s","e"," ","t","r","y"," ","a","g","a","i","n",".">>

\* main.py:635: 'Chat history cleared'
CLEARED_MESSAGE ==
  <<"C","h","a","t"," ","h","i","s","t","o","r","y"," ","c","l","e","a","r","e","d">>
\* request text: 'hi'
TXT_HI ==
  <<"h","i">>

\* request text: 'random text'
TXT_RANDOM ==
  <<"r","a","n","d","o","m"," ","t","e","x","t">>

\* request text: 'hello, who are you?'
TXT_HELLO_WHO ==
  <<"h","e","l","l","o",","," ","w","h","o"," ","a","r","e"," ","y","o","u","?">>

\* request text: 'Hey there'
TXT_HEY_THERE ==
  <<"H","e","y"," ","t","h","e","r","e">>

\* request text: 'Moshi-Moshi'
TXT_MOSHI ==
  <<"M","o","s","h","i","-","M","o","s","h","i">>

\* request text ("hi" occurs inside "this"): 'this is it'
TXT_THIS ==
  <<"t","h","i","s"," ","i","s"," ","i","t">>

\* request text: 'Is Stella in?'
TXT_STELLA_IN ==
  <<"I","s"," ","S","t","e","l","l","a"," ","i","n","?">>

\* request text: 'stella, who are you?'
TXT_STELLA_WHO ==
  <<"s","t","e","l","l","a",","," ","w","h","o"," ","a","r","e"," ","y","o","u","?">>

\* request text: 'Stella can help'
TXT_STELLA_HELP ==
  <<"S","t","e","l","l","a"," ","c","a","n"," ","h","e","l","p">>

\* request text: 'Who are you'
TXT_WHO ==
  <<"W","h","o"," ","a","r","e"," ","y","o","u">>

\* request text: 'What are you?'
TXT_WHAT ==
  <<"W","h","a","t"," ","a","r","e"," ","y","o","u","?">>

\* request text: 'introduce yourself'
TXT_INTRODUCE ==
  <<"i","n","t","r","o","d","u","c","e"," ","y","o","u","r","s","e","l","f">>

\* request text: 'who are you, and what can you do?'
TXT_WHO_AND_CAN ==
  <<"w","h","o"," ","a","r","e"," ","y","o","u",","," ","a","n","d"," ","w","h","a","t"," ","c","a","n"," ","y","o","u"," ","d","o","?">>

\* request text: 'HELP?'
TXT_HELP ==
  <<"H","E","L","P","?">>

\* request text: 'What can you do?'
TXT_CAN_DO ==
  <<"W","h","a","t"," ","c","a","n"," ","y","o","u"," ","d","o","?">>

\* request text: 'your capabilities'
TXT_CAPS ==
  <<"y","o","u","r"," ","c","a","p","a","b","i","l","i","t","i","e","s">>

\* request text: 'Why?'
TXT_WHY ==
  <<"W","h","y","?">>

\* request text: 'OK'
TXT_OK ==
  <<"O","K">>

\* request text: ''
TXT_EMPTY ==
  <<>>

\* content of a vector store match: 'Akshay Dadwal bio'
KNOWLEDGE_BIO ==
  <<"A","k","s","h","a","y"," ","D","a","d","w","a","l"," ","b","i","o">>

\* content of a vector store match: 'Akshay Dadwal cv'
KNOWLEDGE_CV ==
  <<"A","k","s","h","a","y"," ","D","a","d","w","a","l"," ","c","v">>

\* final output of an agent run: 'Akshay is an engineer.'
AGENT_ANSWER ==
  <<"A","k","s","h","a","y"," ","i","s"," ","a","n"," ","e","n","g","i","n","e","e","r",".">>

\* str(e) of an exception raised by the vector store search: 'Connection error.'
ERR_LOOKUP ==
  <<"C","o","n","n","e","c","t","i","o","n"," ","e","r","r","o","r",".">>

\* str(e) of an exception raised by the agent run: 'Rate limit exceeded'
ERR_AGENT ==
  <<"R","a","t","e"," ","l","i","m","i","t"," ","e","x","c","e","e","d","e","d">>

\* str(e) of an exception raised in run_workflow outside its try blocks: "codec can't encode character"
ERR_WORKFLOW ==
  <<"c","o","d","e","c"," ","c","a","n","'","t"," ","e","n","c","o","d","e"," ","c","h","a","r","a","c","t","e","r">>

(***************************************************************************)
(* Python string operations.                                               *)
(***************************************************************************)
UPPERCASE == <<"A","B","C","D","E","F","G","H","I","J","K","L","M","N","O","P","Q","R","S","T","U","V","W","X","Y","Z">>
LOWERCASE == <<"a","b","c","d","e","f","g","h","i","j","k","l","m","n","o","p","q","r","s","t","u","v","w","x","y","z">>

\* str.lower() on one character
lower_char(c) ==
  IF \E i \in 1..Len(UPPERCASE) : UPPERCASE[i] = c
  THEN LOWERCASE[CHOOSE i \in 1..Len(UPPERCASE) : UPPERCASE[i] = c]
  ELSE c

\* str.lower()
lower(s) == [i \in 1..Len(s) |-> lower_char(s[i])]

\* sub in s
Contains(sub, s) ==
  \E i \in 0..(Len(s) - Len(sub)) : SubSeq(s, i + 1, i + Len(sub)) = sub

\* any(word in s for word in words)
any_in(words, s) == \E i \in 1..Len(words) : Contains(words[i], s)

(***************************************************************************)
(* generate_response_sync, main.py:225-249.  The history argument is       *)
(* accepted and never read.                                                *)
(***************************************************************************)
\* generate_response_sync greeting only at the start of a conversation
generate_response_sync_history_dependent(user_message, history) ==
  LET message_lower == lower(user_message) IN
  IF any_in(<<HELLO, HI, HEY, MOSHI>>, message_lower) /\ history = <<>>
    THEN GREETING_REPLY
  ELSE IF Contains(STELLA, message_lower)
    THEN STELLA_REPLY
  ELSE IF any_in(<<WHO_ARE_YOU, WHAT_ARE_YOU, INTRODUCE>>, message_lower)
    THEN IDENTITY_REPLY
  ELSE IF any_in(<<HELP, WHAT_CAN_YOU_DO, CAPABILITIES>>, message_lower)
    THEN CAPABILITY_REPLY
  ELSE IF Contains(QUESTION_MARK, user_message)
    THEN QUESTION_PREFIX \o user_message \o QUESTION_SUFFIX
  ELSE ECHO_PREFIX \o user_message \o ECHO_SUFFIX

\* generate_response_sync with the identity rule tested before the greeting
generate_response_sync_identity_first(user_message, history) ==
  LET message_lower == lower(user_message) IN
  IF any_in(<<WHO_ARE_YOU, WHAT_ARE_YOU, INTRODUCE>>, message_lower)
    THEN IDENTITY_REPLY
  ELSE IF any_in(<<HELLO, HI, HEY, MOSHI>>, message_lower)
    THEN GREETING_REPLY
  ELSE IF Contains(STELLA, message_lower)
    THEN STELLA_REPLY
  ELSE IF any_in(<<HELP, WHAT_CAN_YOU_DO, CAPABILITIES>>, message_lower)
    THEN CAPABILITY_REPLY
  ELSE IF Contains(QUESTION_MARK, user_message)
    THEN QUESTION_PREFIX \o user_message \o QUESTION_SUFFIX
  ELSE ECHO_PREFIX \o user_message \o ECHO_SUFFIX

\* generate_response_sync echoing the lowercased text
generate_response_sync_echo_lower(user_message, history) ==
  LET message_lower == lower(user_message) IN
  IF any_in(<<HELLO, HI, HEY, MOSHI>>, message_lower)
    THEN GREETING_REPLY
  ELSE IF Contains(STELLA, message_lower)
    THEN STELLA_REPLY
  ELSE IF any_in(<<WHO_ARE_YOU, WHAT_ARE_YOU, INTRODUCE>>, message_lower)
    THEN IDENTITY_REPLY
  ELSE IF any_in(<<HELP, WHAT_CAN_YOU_DO, CAPABILITIES>>, message_lower)
    THEN CAPABILITY_REPLY
  ELSE IF Contains(QUESTION_MARK, user_message)
    THEN QUESTION_PREFIX \o user_message \o QUESTION_SUFFIX
  ELSE ECHO_PREFIX \o message_lower \o ECHO_SUFFIX

\* generate_response_sync, main.py:225-249
generate_response_sync(user_message, history) ==
  LET message_lower == lower(user_message) IN
  IF any_in(<<HELLO, HI, HEY, MOSHI>>, message_lower)
    THEN GREETING_REPLY
  ELSE IF Contains(STELLA, message_lower)
    THEN STELLA_REPLY
  ELSE IF any_in(<<WHO_ARE_YOU, WHAT_ARE_YOU, INTRODUCE>>, message_lower)
    THEN IDENTITY_REPLY
  ELSE IF any_in(<<HELP, WHAT_CAN_YOU_DO, CAPABILITIES>>, message_lower)
    THEN CAPABILITY_REPLY
  ELSE IF Contains(QUESTION_MARK, user_message)
    THEN QUESTION_PREFIX \o user_message \o QUESTION_SUFFIX
  ELSE ECHO_PREFIX \o user_message \o ECHO_SUFFIX

(***************************************************************************)
(* Inputs of the model: session ids, request texts and what the two remote *)
(* calls can answer.                                                       *)
(***************************************************************************)
SessionIds == {"default", "s2"}

\* the texts of chat requests
Messages == {TXT_HI, TXT_RANDOM}

\* the texts the request arriving at time t may carry.  The handlers never
\* look into a text (it is stored and passed on), so the first request of a
\* behaviour sends "hi"; later ones repeat it or send the other text.
MessagesAt(t) == IF t = 0 THEN {TXT_HI} ELSE Messages

\* the texts generate_response_sync is applied to in SyncSpec
RuleTexts ==
  {TXT_HI, TXT_RANDOM, TXT_HELLO_WHO, TXT_HEY_THERE, TXT_MOSHI, TXT_THIS,
   TXT_STELLA_IN, TXT_STELLA_WHO, TXT_STELLA_HELP, TXT_WHO, TXT_WHAT,
   TXT_INTRODUCE, TXT_WHO_AND_CAN, TXT_HELP, TXT_CAN_DO, TXT_CAPS, TXT_WHY,
   TXT_OK, TXT_EMPTY}

RECURSIVE SeqsUpTo(_, _)
SeqsUpTo(S, n) ==
  IF n = 0 THEN {<<>>}
  ELSE LET shorter == SeqsUpTo(S, n - 1) IN
       shorter \cup {Append(h, x) : h \in {q \in shorter : Len(q) = n - 1}, x \in S}

\* the history arguments generate_response_sync is applied to in SyncSpec
Histories == SeqsUpTo(Messages, MaxHistory)

\* What an await delivers: a value, an Exception, or the CancelledError
\* asyncio throws into a task that is cancelled while it is suspended
\* (a BaseException, which `except Exception` does not catch).
Delivered(data, output) ==
  [exc |-> "none", error |-> <<>>, data |-> data, output |-> output]
Thrown(exc, error) ==
  [exc |-> exc, error |-> error, data |-> <<>>, output |-> <<>>]
CancelledError == Thrown("CancelledError", <<>>)

\* search_response.data of client.vector_stores.search(max_num_results=2):
\* the contents of at most two matches, best first; a match can have an
\* empty content.
SearchAnswers ==
  {Delivered(<<>>, <<>>),
   Delivered(<<KNOWLEDGE_BIO, KNOWLEDGE_CV>>, <<>>),
   Delivered(<< <<>> >>, <<>>),
   Thrown("Exception", ERR_LOOKUP)}

\* agent_result_temp.final_output_as(str) of Runner.run
AgentAnswers ==
  {Delivered(<<>>, AGENT_ANSWER),
   Thrown("Exception", ERR_AGENT)}

\* run_workflow before its first await (main.py:113-127), outside any try
EntryAnswers ==
  {Delivered(<<>>, <<>>),
   Thrown("Exception", ERR_WORKFLOW)}

ReqIds == 1..MaxRequests

(***************************************************************************)
(* State.                                                                  *)
(***************************************************************************)
VARIABLES
  chat_sessions,  \* main.py:38: session id -> list of the contents appended
  requests,       \* the chat coroutines: position and local variables
  now,            \* datetime.now(): the clock, which advances between two arrivals
  last,           \* the handler step taken last and the response it sent
  seen,           \* the session ids chat requests have used
  serial,         \* per session: the turns served one after another since it was empty
  sync_call,      \* SyncSpec: the latest call of generate_response_sync
  sync_prev       \* SyncSpec: the call before it

vars == <<chat_sessions, requests, now, last, seen, serial, sync_call, sync_prev>>

\* datetime.isoformat() of the clock reading t (the second of one minute)
DIGITS == <<"0","1","2","3","4","5","6","7","8","9">>
isoformat(t) ==
  <<"2","0","2","5","-","1","0","-","0","8","T","1","2",":","0","0",":">>
    \o <<DIGITS[((t \div 10) % 10) + 1], DIGITS[(t % 10) + 1]>>

\* class Message, main.py:41-44
Message(role, content, timestamp) ==
  [role |-> role, content |-> content, timestamp |-> timestamp]

\* class ChatResponse, main.py:52-55
ChatResponse(response, session_id, timestamp) ==
  [response |-> response, session_id |-> session_id, timestamp |-> timestamp]

\* a request whose remote call is one that will never answer
Hung(r) == requests[r].pc \in {"hung_search", "hung_agent"}
Suspended(r) == requests[r].pc \in {"await_search", "await_agent"} \/ Hung(r)
InFlight(s) == {r \in ReqIds : Suspended(r) /\ requests[r].session_id = s}

(***************************************************************************)
(* The ChatKit workflow, main.py:109-222.  A coroutine runs to its next    *)
(* await, to its return or to an exception that leaves it:                 *)
(*   Await(at, knowledge)  suspended in the remote call `at`               *)
(*   Return(value)         returned the text `value`                       *)
(*   Raise(exc, error)     left by the exception `exc` with str(e) = error *)
(***************************************************************************)
Await(at, knowledge) ==
  [kind |-> "await", at |-> at, value |-> <<>>, exc |-> "none", error |-> <<>>, knowledge |-> knowledge]
Return(value) ==
  [kind |-> "return", at |-> "none", value |-> value, exc |-> "none", error |-> <<>>, knowledge |-> <<>>]
Raise(exc, error) ==
  [kind |-> "raise", at |-> "none", value |-> <<>>, exc |-> exc, error |-> error, knowledge |-> <<>>]

\* transform_result["result"], main.py:139-159: None, or a text
None == [is_none |-> TRUE, value |-> <<>>]
Some(value) == [is_none |-> FALSE, value |-> value]

\* Python truthiness of transform_result["result"], main.py:162
Truthy(v) == ~v.is_none /\ v.value # <<>>

\* main.py:130-159, after client.vector_stores.search answered `search`
\* with an answer or an Exception
transform_result(search) ==
  IF search.exc = "Exception"
    THEN None
  ELSE IF search.data # <<>>
    THEN Some(search.data[1])
  ELSE Some(NO_RELEVANT_KNOWLEDGE)

\* agent_issue_reply with an empty fallback text
agent_issue_reply_empty(error) == <<>>

\* main.py:196-198
agent_issue_reply(error) == AGENT_ISSUE_PREFIX \o error \o AGENT_ISSUE_SUFFIX

\* main.py:222
request_issue_reply(error) == REQUEST_ISSUE_PREFIX \o error \o REQUEST_ISSUE_SUFFIX

\* run_workflow, main.py:113-133: up to the await of the vector store search
run_workflow_start(entry) ==
  IF entry.exc # "none"
    THEN Raise(entry.exc, entry.error)
    ELSE Await("await_search", <<>>)

\* run_workflow_after_search without the except clause of main.py:156-159
run_workflow_after_search_reraise(search) ==
  IF search.exc # "none"
    THEN Raise(search.exc, search.error)
  ELSE IF Truthy(transform_result(search))
    THEN Await("await_agent", transform_result(search).value)
  ELSE Return(CANNOT_HELP)

\* run_workflow, main.py:133-162 and 199-204: from the answer of the search
\* to the await of the agent run, or to the return of the else branch
run_workflow_after_search(search) ==
  IF search.exc = "CancelledError"
    THEN Raise(search.exc, search.error)
  ELSE IF Truthy(transform_result(search))
    THEN Await("await_agent", transform_result(search).value)
  ELSE Return(CANNOT_HELP)

\* run_workflow_after_agent without the except clause of main.py:193-198
run_workflow_after_agent_reraise(agent) ==
  IF agent.exc = "none"
    THEN Return(agent.output)
    ELSE Raise(agent.exc, agent.error)

\* run_workflow, main.py:165-198: from the answer of Runner.run to the return
run_workflow_after_agent(agent) ==
  IF agent.exc = "none"
    THEN Return(agent.output)
  ELSE IF agent.exc = "Exception"
    THEN Return(agent_issue_reply(agent.error))
  ELSE Raise(agent.exc, agent.error)

\* generate_response, main.py:211-222: `workflow` is what run_workflow did
generate_response(workflow) ==
  IF workflow.kind = "raise" /\ workflow.exc = "Exception"
    THEN Return(request_issue_reply(workflow.error))
    ELSE workflow

\* chat, main.py:612-616: the try around generate_response
chat_try(workflow, user_message, history) ==
  LET generated == generate_response(workflow) IN
  IF generated.kind = "raise" /\ generated.exc = "Exception"
    THEN Return(generate_response_sync(user_message, history))
    ELSE generated

(***************************************************************************)
(* The session store, main.py:38 and its uses in the handlers.             *)
(***************************************************************************)
\* main.py:603-604
init_session(sessions, s) ==
  IF s \notin DOMAIN sessions THEN sessions @@ (s :> <<>>) ELSE sessions

\* append_user assigning the log instead of appending to it
append_user_overwrite(sessions, s, user_message) ==
  [sessions EXCEPT ![s] = <<user_message.content>>]

\* main.py:609
append_user(sessions, s, user_message) ==
  [sessions EXCEPT ![s] = Append(@, user_message.content)]

\* append_assistant inserting at the head of the log
append_assistant_first(sessions, s, assistant_message) ==
  [sessions EXCEPT ![s] = <<assistant_message.content>> \o @]

\* append_assistant appending to the list the handler saw before it
\* suspended: after clear_chat replaced the list, the store is not changed
append_assistant_stale(sessions, s, assistant_message) ==
  IF sessions[s] = <<>>
    THEN sessions
    ELSE [sessions EXCEPT ![s] = Append(@, assistant_message.content)]

\* main.py:620
append_assistant(sessions, s, assistant_message) ==
  [sessions EXCEPT ![s] = Append(@, assistant_message.content)]

\* clear_session emptying every session
clear_session_all(sessions, s) ==
  [t \in DOMAIN sessions |-> <<>>]

\* clear_session assigning [] without the membership test
clear_session_create(sessions, s) ==
  [t \in DOMAIN sessions \cup {s} |-> IF t = s THEN <<>> ELSE sessions[t]]

\* clear_session removing the last entry only
clear_session_drop_last(sessions, s) ==
  IF s \in DOMAIN sessions /\ sessions[s] # <<>>
    THEN [sessions EXCEPT ![s] = SubSeq(@, 1, Len(@) - 1)]
    ELSE sessions

\* clear_session deleting the session id from the store
clear_session_delete(sessions, s) ==
  [t \in DOMAIN sessions \ {s} |-> sessions[t]]

\* main.py:633-634
clear_session(sessions, s) ==
  IF s \in DOMAIN sessions THEN [sessions EXCEPT ![s] = <<>>] ELSE sessions

\* chat_sessions.get(session_id, []), main.py:643
sessions_get(sessions, s) ==
  IF s \in DOMAIN sessions THEN sessions[s] ELSE <<>>

\* the messages get_history would return for session id s
History(s) == sessions_get(chat_sessions, s)

(***************************************************************************)
(* Initial state: no session, no request, main.py:38.                      *)
(***************************************************************************)
NoRequest ==
  [pc |-> "idle", session_id |-> "", message |-> <<>>, timestamp |-> <<>>,
   failed |-> "none", matches |-> -1, agent_invoked |-> FALSE,
   knowledge |-> <<>>, response_text |-> <<>>,
   appended_user |-> 0, appended_assistant |-> 0, error |-> <<>>]

\* a slot whose coroutine has ended, by its return or by an exception: its
\* local variables are gone
Ended == [NoRequest EXCEPT !.pc = "ended"]

\* `turn` holds the local variables of a chat coroutine at its end; `calls`
\* tells a clear_chat that directly follows a clear_chat of the same session
\* (2) from any other (1), and `dropped` counts the entries the log held
\* before the first of them
NoStep ==
  [op |-> "none", session_id |-> "", status |-> "none",
   body |-> ChatResponse(<<>>, "", <<>>), messages |-> <<>>, turn |-> NoRequest,
   calls |-> 0, dropped |-> 0]

NoCall == [called |-> FALSE, user_message |-> <<>>, history |-> <<>>, response |-> <<>>]

Init ==
  /\ chat_sessions = <<>>
  /\ requests = [r \in ReqIds |-> NoRequest]
  /\ now = 0
  /\ last = NoStep
  /\ seen = {}
  /\ serial = [s \in SessionIds |-> [ok |-> TRUE, turns |-> <<>>]]
  /\ sync_call = NoCall
  /\ sync_prev = NoCall

(***************************************************************************)
(* chat, main.py:597-626.                                                  *)
(***************************************************************************)
\* What the handler of request r does once generate_response has run to
\* `outcome` (an await, a return or an exception that `except Exception`
\* does not catch), with `sessions` the store, rq its local variables and
\* ser the record of the turns served one after another.
chat_continue(r, rq, sessions, ser, outcome) ==
  LET s == rq.session_id IN
  CASE outcome.kind = "await" ->
         /\ chat_sessions' = sessions
         /\ requests' = [requests EXCEPT ![r] =
              [rq EXCEPT !.pc = outcome.at,
                         !.knowledge = outcome.knowledge,
                         !.agent_invoked = (outcome.at = "await_agent")]]
         /\ last' = [NoStep EXCEPT !.op = "chat", !.session_id = s,
                                   !.status = "suspended"]
         /\ serial' = ser
    [] outcome.kind = "return" ->
         LET response_text == outcome.value
             assistant_message == Message("assistant", response_text, rq.timestamp)
             after == append_assistant(sessions, s, assistant_message)
         IN
         /\ chat_sessions' = after
         /\ requests' = [requests EXCEPT ![r] = Ended]
         /\ last' = [NoStep EXCEPT !.op = "chat", !.session_id = s,
                                   !.status = "ok",
                                   !.body = ChatResponse(response_text, s, rq.timestamp),
                                   !.turn = [rq EXCEPT
                                      !.pc = "done",
                                      !.response_text = response_text,
                                      !.appended_assistant = Len(after[s]) - Len(sessions[s])]]
         /\ serial' = [ser EXCEPT ![s] = IF @.ok
              THEN [@ EXCEPT !.turns = Append(@, [text |-> rq.message, response |-> response_text])]
              ELSE @]
    [] outcome.kind = "raise" ->
         /\ chat_sessions' = sessions
         /\ requests' = [requests EXCEPT ![r] = Ended]
         /\ last' = [NoStep EXCEPT !.op = "chat", !.session_id = s,
                                   !.status = "error",
                                   !.turn = [rq EXCEPT !.pc = "aborted"]]
         /\ serial' = [ser EXCEPT ![s] = [ok |-> FALSE, turns |-> <<>>]]

\* chat holding a per-session lock: a request on s starts only when no
\* other request on s is in flight
chat_one_at_a_time(r, s, m, entry) ==
  /\ InFlight(s) = {}
  /\ requests[r].pc = "idle"
  /\ \A q \in ReqIds : q < r => requests[q].pc # "idle"
  /\ LET created == init_session(chat_sessions, s)
         timestamp == isoformat(now)
         user_message == Message("user", m, timestamp)
         sessions == append_user(created, s, user_message)
         rq == [NoRequest EXCEPT
                  !.session_id = s, !.message = user_message.content,
                  !.timestamp = timestamp,
                  !.failed = IF entry.exc = "none" THEN "none" ELSE "entry",
                  !.error = entry.error,
                  !.appended_user = Len(sessions[s]) - Len(History(s))]
         outcome == chat_try(run_workflow_start(entry), user_message.content, sessions[s])
         ser == [serial EXCEPT ![s] = IF @.ok /\ InFlight(s) = {}
                                       THEN @ ELSE [ok |-> FALSE, turns |-> <<>>]]
     IN
     chat_continue(r, rq, sessions, ser, outcome)
  /\ seen' = seen \cup {s}
  /\ now' = now + 1
  /\ UNCHANGED <<sync_call, sync_prev>>

\* main.py:600-613: a request arrives; the handler runs to the await of the
\* vector store search (or to its end, when run_workflow raises before it)
chat(r, s, m, entry) ==
  /\ requests[r].pc = "idle"
  /\ \A q \in ReqIds : q < r => requests[q].pc # "idle"
  /\ LET created == init_session(chat_sessions, s)
         timestamp == isoformat(now)
         user_message == Message("user", m, timestamp)
         sessions == append_user(created, s, user_message)
         rq == [NoRequest EXCEPT
                  !.session_id = s, !.message = user_message.content,
                  !.timestamp = timestamp,
                  !.failed = IF entry.exc = "none" THEN "none" ELSE "entry",
                  !.error = entry.error,
                  !.appended_user = Len(sessions[s]) - Len(History(s))]
         outcome == chat_try(run_workflow_start(entry), user_message.content, sessions[s])
         ser == [serial EXCEPT ![s] = IF @.ok /\ InFlight(s) = {}
                                       THEN @ ELSE [ok |-> FALSE, turns |-> <<>>]]
     IN
     chat_continue(r, rq, sessions, ser, outcome)
  /\ seen' = seen \cup {s}
  /\ now' = now + 1
  /\ UNCHANGED <<sync_call, sync_prev>>

\* main.py:133-162, 199-204, 618-626: the vector store search answers
chat_search_returns(r, search) ==
  /\ requests[r].pc = "await_search"
  /\ LET s == requests[r].session_id
         rq == [requests[r] EXCEPT
                  !.failed = IF search.exc = "Exception" THEN "lookup" ELSE @,
                  !.error = search.error,
                  !.matches = IF search.exc = "none" THEN Len(search.data) ELSE @]
         outcome == chat_try(run_workflow_after_search(search), rq.message, chat_sessions[s])
     IN
     chat_continue(r, rq, chat_sessions, serial, outcome)
  /\ UNCHANGED <<now, seen, sync_call, sync_prev>>

\* main.py:165-198, 618-626: the agent run answers
chat_agent_returns(r, agent) ==
  /\ requests[r].pc = "await_agent"
  /\ LET s == requests[r].session_id
         rq == [requests[r] EXCEPT
                  !.failed = IF agent.exc = "Exception" THEN "agent" ELSE @,
                  !.error = agent.error]
         outcome == chat_try(run_workflow_after_agent(agent), rq.message, chat_sessions[s])
     IN
     chat_continue(r, rq, chat_sessions, serial, outcome)
  /\ UNCHANGED <<now, seen, sync_call, sync_prev>>

\* The task of request r is cancelled while it is suspended in a remote
\* call (the client went away, the server shuts down): the await raises
\* CancelledError, main.py:133 or 165.
chat_cancelled(r) ==
  /\ Suspended(r)
  /\ LET s == requests[r].session_id
         rq == [requests[r] EXCEPT !.failed = "cancelled"]
         workflow == IF requests[r].pc \in {"await_search", "hung_search"}
                       THEN run_workflow_after_search(CancelledError)
                       ELSE run_workflow_after_agent(CancelledError)
         outcome == chat_try(workflow, rq.message, chat_sessions[s])
     IN
     chat_continue(r, rq, chat_sessions, serial, outcome)
  /\ UNCHANGED <<now, seen, sync_call, sync_prev>>

(***************************************************************************)
(* clear_chat, main.py:629-635.                                            *)
(***************************************************************************)
clear_chat(s) ==
  LET again == last.op = "clear_chat" /\ last.session_id = s IN
  /\ chat_sessions' = clear_session(chat_sessions, s)
  /\ last' = [NoStep EXCEPT !.op = "clear_chat", !.session_id = s,
                            !.status = "success", !.messages = CLEARED_MESSAGE,
                            !.calls = IF again THEN 2 ELSE 1,
                            !.dropped = IF again THEN last.dropped ELSE Len(History(s))]
  /\ serial' = [serial EXCEPT ![s] =
       [ok |-> InFlight(s) = {} /\ (s \in DOMAIN chat_sessions' => chat_sessions'[s] = <<>>),
        turns |-> <<>>]]
  /\ UNCHANGED <<requests, now, seen, sync_call, sync_prev>>

(***************************************************************************)
(* get_history, main.py:638-644.                                           *)
(***************************************************************************)
get_history(s) ==
  /\ last' = [NoStep EXCEPT !.op = "get_history", !.session_id = s,
                            !.status = "ok", !.messages = sessions_get(chat_sessions, s)]
  /\ UNCHANGED <<chat_sessions, requests, now, seen, serial, sync_call, sync_prev>>

(***************************************************************************)
(* The service: requests arrive and remote calls answer in any order.      *)
(***************************************************************************)
Next ==
  \/ \E r \in ReqIds, s \in SessionIds, m \in MessagesAt(now), entry \in EntryAnswers :
       chat(r, s, m, entry)
  \/ \E r \in ReqIds, search \in SearchAnswers : chat_search_returns(r, search)
  \/ \E r \in ReqIds, agent \in AgentAnswers : chat_agent_returns(r, agent)
  \/ \E r \in ReqIds : chat_cancelled(r)
  \/ \E s \in SessionIds : clear_chat(s)
  \/ \E s \in SessionIds : get_history(s)

Spec == Init /\ [][Next]_vars

(***************************************************************************)
(* The service with remote calls that may never answer.  The awaits of     *)
(* main.py:133 and 165 carry no timeout (no asyncio.wait_for, no timeout   *)
(* argument), so the coroutine has no step of its own while the call is    *)
(* pending: only an answer or a cancellation resumes it.                   *)
(***************************************************************************)
remote_never_answers(r) ==
  /\ requests[r].pc \in {"await_search", "await_agent"}
  /\ requests' = [requests EXCEPT ![r].pc =
       IF @ = "await_search" THEN "hung_search" ELSE "hung_agent"]
  /\ UNCHANGED <<chat_sessions, now, last, seen, serial, sync_call, sync_prev>>

FairNext ==
  \/ Next
  \/ \E r \in ReqIds : remote_never_answers(r)

\* The event loop resumes a coroutine once the call it awaits has answered,
\* and a remote call that is not hung answers: weak fairness of the two
\* resumptions.  Arrivals, cancellations and hangs are the environment's.
FairSpec ==
  /\ Init
  /\ [][FairNext]_vars
  /\ \A r \in ReqIds :
       /\ WF_vars(\E search \in SearchAnswers : chat_search_returns(r, search))
       /\ WF_vars(\E agent \in AgentAnswers : chat_agent_returns(r, agent))

(***************************************************************************)
(* generate_response_sync applied to bounded inputs: two calls in a row,   *)
(* each with any text and any history.                                     *)
(***************************************************************************)
sync_called(m, h) ==
  /\ ~sync_prev.called
  /\ sync_prev' = sync_call
  /\ sync_call' = [called |-> TRUE, user_message |-> m, history |-> h,
                   response |-> generate_response_sync(m, h)]
  /\ UNCHANGED <<chat_sessions, requests, now, last, seen, serial>>

SyncNext == \E m \in RuleTexts, h \in Histories : sync_called(m, h)

SyncSpec == Init /\ [][SyncNext]_vars

(***************************************************************************)
(* Properties.                                                             *)
(***************************************************************************)
\* the turns served one after another on session s since its log was empty
TurnsServed(s) == serial[s].turns

\* C1: after N chat requests on one session, served one after another from
\* an empty or unseen session with no clear_chat in between, the log of the
\* session has exactly 2N entries: entry 2k-1 is the text of the k-th
\* request and entry 2k is the response to it.
C1_SerialTurnsAlternate ==
  \A s \in SessionIds :
    (serial[s].ok /\ InFlight(s) = {}) =>
      /\ Len(sessions_get(chat_sessions, s)) = 2 * Len(TurnsServed(s))
      /\ \A k \in 1..Len(TurnsServed(s)) :
           /\ sessions_get(chat_sessions, s)[2 * k - 1] = TurnsServed(s)[k].text
           /\ sessions_get(chat_sessions, s)[2 * k] = TurnsServed(s)[k].response

C1_Witness ==
  \E s \in SessionIds :
    /\ serial[s].ok
    /\ InFlight(s) = {}
    /\ Len(TurnsServed(s)) = 2
    /\ TurnsServed(s)[1].text # TurnsServed(s)[2].text
    /\ TurnsServed(s)[1].response # TurnsServed(s)[2].response

\* a chat coroutine has just ended (by its return or by an exception)
ChatEnded == last.op = "chat" /\ last.status \in {"ok", "error"}

\* C2: when an Exception is raised in the delegating path (by the vector
\* store search, by the agent run or elsewhere in generate_response), the
\* chat request is answered with status ok and a non-empty response, and
\* has appended exactly one user entry and one assistant entry.
C2_FailureStillAnswered ==
  (ChatEnded /\ last.turn.failed \in {"entry", "lookup", "agent"}) =>
    /\ last.status = "ok"
    /\ last.body.response # <<>>
    /\ last.body.response = last.turn.response_text
    /\ last.turn.appended_user = 1
    /\ last.turn.appended_assistant = 1

C2_Witness ==
  /\ ChatEnded
  /\ last.turn.failed = "agent"
  /\ last.status = "ok"
  /\ last.turn.appended_assistant = 1

\* C3: when the vector store search or the agent run raises, the response
\* of the chat request is the text generate_response_sync gives for the
\* text of the request.
C3_FallbackIsRuleBased ==
  (ChatEnded /\ last.turn.failed \in {"lookup", "agent"}) =>
    /\ last.status = "ok"
    /\ last.body.response =
         generate_response_sync(last.turn.message, sessions_get(chat_sessions, last.session_id))

\* C4: the agent is invoked exactly when the vector store search returned
\* at least one match; a search that returns no match ends the turn with
\* "Sorry, I can't help." and no agent run.
C4_AgentIffMatch ==
  /\ \A r \in ReqIds :
       requests[r].pc = "await_agent" => requests[r].matches >= 1
  /\ (ChatEnded /\ last.turn.matches >= 1) => last.turn.agent_invoked
  /\ (ChatEnded /\ last.turn.matches = 0) =>
       /\ ~last.turn.agent_invoked
       /\ last.body.response = CANNOT_HELP

\* C5: for a session id no chat request has used, get_history returns no
\* message and clear_chat answers success, and neither creates the session
\* nor changes the log of any session.
C5_UnseenSessionUntouched ==
  [][\A s \in SessionIds \ seen :
       (last'.session_id = s /\ last'.op \in {"clear_chat", "get_history"}) =>
         /\ chat_sessions' = chat_sessions
         /\ s \notin DOMAIN chat_sessions'
         /\ last'.op = "get_history" => last'.messages = <<>>
         /\ last'.op = "clear_chat" => last'.status = "success"]_vars

C5_Witness ==
  /\ last.op = "clear_chat"
  /\ last.status = "success"
  /\ last.session_id \notin seen
  /\ last.session_id \notin DOMAIN chat_sessions
  /\ \E t \in seen : sessions_get(chat_sessions, t) # <<>>

\* C6: a chat request that is cancelled while it is suspended in a remote
\* call has appended both its user entry and its assistant entry, or
\* neither.
C6_NoPartialTurn ==
  (ChatEnded /\ last.turn.failed = "cancelled") =>
    last.turn.appended_user = last.turn.appended_assistant

\* C7: a step of chat, clear_chat or get_history for session id s leaves the
\* log of every other session id as it was, whatever else is in flight.
C7_OtherSessionsUnchanged ==
  [][\A t \in SessionIds :
       last'.session_id # t =>
         /\ (t \in DOMAIN chat_sessions') = (t \in DOMAIN chat_sessions)
         /\ t \in DOMAIN chat_sessions => chat_sessions'[t] = chat_sessions[t]]_vars

C7_Witness ==
  /\ last.op = "clear_chat"
  /\ last.dropped > 0
  /\ \E t \in SessionIds \ {last.session_id} :
       /\ sessions_get(chat_sessions, t) # <<>>
       /\ InFlight(t) # {}

\* C8: after clear_chat, and again after a second clear_chat that directly
\* follows it, the history of the session is empty, whatever the log held.
C8_ClearTwiceEmpty ==
  (last.op = "clear_chat" /\ last.calls \in {1, 2}) =>
    sessions_get(chat_sessions, last.session_id) = <<>>

C8_Witness ==
  /\ last.op = "clear_chat"
  /\ last.calls = 2
  /\ last.dropped > 0
  /\ sessions_get(chat_sessions, last.session_id) = <<>>

\* The rules of the rule-based variant in their stated order: greeting,
\* special-name mention, identity question, capability question, contains
\* "?", default echo.
RuleMatches(i, text) ==
  CASE i = 1 -> \E w \in {HELLO, HI, HEY, MOSHI} : Contains(w, lower(text))
    [] i = 2 -> Contains(STELLA, lower(text))
    [] i = 3 -> \E w \in {WHO_ARE_YOU, WHAT_ARE_YOU, INTRODUCE} : Contains(w, lower(text))
    [] i = 4 -> \E w \in {HELP, WHAT_CAN_YOU_DO, CAPABILITIES} : Contains(w, lower(text))
    [] i = 5 -> Contains(QUESTION_MARK, text)
    [] i = 6 -> TRUE

RuleReply(i, text) ==
  CASE i = 1 -> GREETING_REPLY
    [] i = 2 -> STELLA_REPLY
    [] i = 3 -> IDENTITY_REPLY
    [] i = 4 -> CAPABILITY_REPLY
    [] i = 5 -> QUESTION_PREFIX \o text \o QUESTION_SUFFIX
    [] i = 6 -> ECHO_PREFIX \o text \o ECHO_SUFFIX

FirstRule(text) ==
  CHOOSE i \in 1..6 : RuleMatches(i, text) /\ \A j \in 1..(i - 1) : ~RuleMatches(j, text)

\* C9: generate_response_sync answers with the reply of the first rule, in
\* the order greeting, special name, identity, capability, "?", echo, that
\* matches the text; "hello, who are you?" gets the greeting reply.
C9_FirstRuleWins ==
  sync_call.called =>
    /\ sync_call.response = RuleReply(FirstRule(sync_call.user_message), sync_call.user_message)
    /\ sync_call.user_message = TXT_HELLO_WHO => sync_call.response = GREETING_REPLY

C9_Witness ==
  /\ sync_call.called
  /\ sync_call.user_message = TXT_HELLO_WHO
  /\ RuleMatches(3, TXT_HELLO_WHO)
  /\ RuleMatches(5, TXT_HELLO_WHO)
  /\ sync_call.response = GREETING_REPLY

\* C10: two calls of generate_response_sync with the same text return the
\* same response, whatever their history arguments.
C10_SyncDeterministic ==
  (sync_call.called /\ sync_prev.called /\ sync_call.user_message = sync_prev.user_message) =>
    sync_call.response = sync_prev.response

C10_Witness ==
  /\ sync_call.called
  /\ sync_prev.called
  /\ sync_call.user_message = sync_prev.user_message
  /\ sync_call.history # sync_prev.history
  /\ sync_call.response = sync_prev.response

\* a text that matches no keyword rule and contains no "?"
MatchesNoRule(text) == \A i \in 1..5 : ~RuleMatches(i, text)

\* C11: for a text that matches no keyword rule and contains no "?",
\* generate_response_sync returns the default sentence with the text
\* embedded as it was given, in its original casing.
C11_DefaultEchoesVerbatim ==
  (sync_call.called /\ MatchesNoRule(sync_call.user_message)) =>
    /\ Len(sync_call.response) =
         Len(ECHO_PREFIX) + Len(sync_call.user_message) + Len(ECHO_SUFFIX)
    /\ SubSeq(sync_call.response, 1, Len(ECHO_PREFIX)) = ECHO_PREFIX
    /\ SubSeq(sync_call.response, Len(ECHO_PREFIX) + 1,
              Len(ECHO_PREFIX) + Len(sync_call.user_message)) = sync_call.user_message
    /\ SubSeq(sync_call.response, Len(ECHO_PREFIX) + Len(sync_call.user_message) + 1,
              Len(sync_call.response)) = ECHO_SUFFIX

C11_Witness ==
  /\ sync_prev.called
  /\ sync_prev.user_message = TXT_RANDOM
  /\ sync_prev.response = ECHO_PREFIX \o TXT_RANDOM \o ECHO_SUFFIX
  /\ sync_call.called
  /\ sync_call.user_message = TXT_OK
  /\ lower(TXT_OK) # TXT_OK
  /\ Contains(TXT_OK, sync_call.response)

\* an entry that is a Message record: a role, a content text and a timestamp
IsMessage(e) ==
  /\ DOMAIN e = {"role", "content", "timestamp"}
  /\ e.role \in {"user", "assistant"}

\* C12: a chat request creates one timestamp before the generator runs,
\* and that one value is carried by the stored user message, by the stored
\* assistant message and by the returned response.
C12_OneTimestampPerTurn ==
  (ChatEnded /\ last.status = "ok") =>
    LET log == History(last.session_id)
        n == Len(log)
    IN /\ last.body.timestamp = last.turn.timestamp
       /\ n >= 1
       /\ IsMessage(log[n])
       /\ log[n].role = "assistant"
       /\ log[n].timestamp = last.turn.timestamp
       /\ (last.turn.appended_user = 1 /\ n >= 2 /\ InFlight(last.session_id) = {}
             /\ last.turn.pc = "done" /\ serial[last.session_id].ok) =>
            /\ IsMessage(log[n - 1])
            /\ log[n - 1].role = "user"
            /\ log[n - 1].timestamp = last.turn.timestamp

\* C13: every element of every session's log, and of the messages that
\* get_history returns, is a Message record with a role of user or
\* assistant, a content text and a timestamp.
C13_EntriesAreMessages ==
  /\ \A s \in DOMAIN chat_sessions :
       \A i \in 1..Len(chat_sessions[s]) : IsMessage(chat_sessions[s][i])
  /\ last.op = "get_history" =>
       \A i \in 1..Len(last.messages) : IsMessage(last.messages[i])

\* C14: a remote call that never answers does not block the request for
\* ever: the wait is bounded, and the request eventually ends with a
\* response and its assistant entry.
C14_HungCallEnds ==
  \A r \in ReqIds : Hung(r) ~> (requests[r].pc = "ended")

\* the next request slot: the one a new chat request takes
NextSlot(r) == requests[r].pc = "idle" /\ \A q \in ReqIds : q < r => requests[q].pc # "idle"

\* C15: two chat requests on the same session can overlap: after any step
\* of a chat request that leaves a request on the session suspended in a
\* remote call, a second one on that session can start and append its user
\* entry, and every suspended one can complete in any order, so the log
\* [user1, user2, assistant, assistant] with the assistant entries in
\* completion order is reachable.
C15_OverlappingTurnsInterleave ==
  \A s \in SessionIds : (last.op = "chat" /\ InFlight(s) # {}) =>
    /\ \A r \in ReqIds : NextSlot(r) =>
         ENABLED (\E m \in MessagesAt(now), entry \in EntryAnswers : chat(r, s, m, entry))
    /\ \A r \in InFlight(s) :
         /\ requests[r].pc = "await_search" =>
              ENABLED (\E search \in SearchAnswers : chat_search_returns(r, search))
         /\ requests[r].pc = "await_agent" =>
              ENABLED (\E agent \in AgentAnswers : chat_agent_returns(r, agent))

\* the log [user1, user2, assistant2, assistant1]: the request that arrived
\* first (at time 0) completed last
C15_Witness ==
  /\ ChatEnded /\ last.status = "ok"
  /\ last.turn.timestamp = isoformat(0)
  /\ LET log == History(last.session_id) IN
       /\ Len(log) = 4
       /\ log[1] = last.turn.message
       /\ log[2] \in Messages /\ log[2] # log[1]
       /\ log[3] = CANNOT_HELP
       /\ log[4] = last.turn.response_text
       /\ log[4] = AGENT_ANSWER

IsPrefix(old, new) == Len(old) <= Len(new) /\ SubSeq(new, 1, Len(old)) = old

\* C16: every step changes a session's log only by appending an entry at
\* its end (a turn that never suspends appends its user entry and then its
\* assistant entry) or, in clear_chat, by resetting it to empty; no entry
\* is removed, reordered or rewritten otherwise.
C16_AppendOrReset ==
  [][\A s \in SessionIds :
       LET old == History(s)
           new == History(s)'
       IN \/ new = old
          \/ /\ IsPrefix(old, new)
             /\ Len(new) = Len(old) + 1
             /\ last'.op = "chat" /\ last'.session_id = s
          \/ /\ IsPrefix(old, new)
             /\ Len(new) = Len(old) + 2
             /\ last'.op = "chat" /\ last'.session_id = s
             /\ last'.turn.failed = "entry"
             /\ new[Len(old) + 1] = last'.turn.message
             /\ new[Len(old) + 2] = last'.body.response
          \/ /\ last'.op = "clear_chat" /\ last'.session_id = s
             /\ new = <<>>]_vars

C16_Witness ==
  /\ last.op = "chat" /\ last.status = "suspended"
  /\ LET log == History(last.session_id) IN
       /\ Len(log) = 3
       /\ log[1] # log[3]
       /\ \E r \in ReqIds : Suspended(r) /\ requests[r].message = log[3]

\* C17: a session id that a chat request created stays in the store in
\* every later state: clear_chat empties its log and keeps the id, so the
\* session of every suspended request is present when its assistant entry
\* is appended.
C17_SessionIdStays ==
  /\ seen \subseteq DOMAIN chat_sessions
  /\ \A r \in ReqIds : Suspended(r) => requests[r].session_id \in DOMAIN chat_sessions

C17_Witness ==
  /\ last.op = "clear_chat"
  /\ last.dropped >= 1
  /\ InFlight(last.session_id) # {}
  /\ last.session_id \in DOMAIN chat_sessions
  /\ chat_sessions[last.session_id] = <<>>

\* the last entry of the log of the session of the step just taken
LastEntry == LET log == History(last.session_id) IN log[Len(log)]

\* C18: when the agent run raises, run_workflow returns a non-empty apology
\* that embeds the error message; chat returns that text with success and
\* stores it as the turn's assistant entry; no exception leaves
\* generate_response, so the rule-based reply is not used.
C18_AgentFailureApology ==
  (ChatEnded /\ last.turn.failed = "agent") =>
    /\ last.status = "ok"
    /\ last.turn.agent_invoked
    /\ last.turn.error # <<>>
    /\ last.body.response = AGENT_ISSUE_PREFIX \o last.turn.error \o AGENT_ISSUE_SUFFIX
    /\ last.body.response # <<>>
    /\ Contains(last.turn.error, last.body.response)
    /\ last.body.response #
         generate_response_sync(last.turn.message, History(last.session_id))
    /\ last.turn.appended_assistant = 1
    /\ History(last.session_id) # <<>>
    /\ LastEntry = last.body.response

C18_Witness ==
  /\ ChatEnded
  /\ last.turn.failed = "agent"
  /\ last.turn.error = ERR_AGENT
  /\ LastEntry = agent_issue_reply(ERR_AGENT)

\* C19: when clear_chat runs on a session while a chat turn on it is
\* suspended, the turn's assistant entry is still appended afterwards, to
\* the fresh empty log: with nothing else on the session, the log is then
\* exactly that one assistant entry, with no user entry before it.
C19_ClearDuringTurnLeavesAssistant ==
  [][\A r \in ReqIds, s \in SessionIds :
       (/\ Suspended(r)
        /\ requests[r].session_id = s
        /\ History(s) = <<>>
        /\ requests'[r].pc = "ended"
        /\ last'.status = "ok")
       => /\ last'.op = "chat"
          /\ last'.session_id = s
          /\ last'.turn.appended_assistant = 1
          /\ History(s)' = <<last'.body.response>>]_vars

C19_Witness ==
  /\ ChatEnded /\ last.status = "ok"
  /\ last.turn.failed = "none"
  /\ last.turn.appended_user = 1
  /\ History(last.session_id) = <<last.body.response>>
  /\ InFlight(last.session_id) = {}

\* C20: when the vector store lookup raises, run_workflow swallows the
\* exception, does not invoke the agent and returns "Sorry, I can't
\* help."; the rule-based variant is not consulted, and that text is
\* returned with success and stored as the turn's assistant entry.
C20_LookupFailureCannotHelp ==
  (ChatEnded /\ last.turn.failed = "lookup") =>
    /\ last.status = "ok"
    /\ ~last.turn.agent_invoked
    /\ last.body.response = CANNOT_HELP
    /\ last.body.response #
         generate_response_sync(last.turn.message, History(last.session_id))
    /\ last.turn.appended_assistant = 1
    /\ History(last.session_id) # <<>>
    /\ LastEntry = CANNOT_HELP

C20_Witness ==
  /\ ChatEnded
  /\ last.turn.failed = "lookup"
  /\ last.turn.error = ERR_LOOKUP
  /\ last.turn.matches = -1
  /\ LastEntry = CANNOT_HELP
====
